---------------------------- MODULE Spec2Model ----------------------------
(***************************************************************************)
(* A model of QgsVectorTileLayer (src/core/vectortile/qgsvectortilelayer   *)
(* .cpp): resolution of the data source (loadDataSource and the ArcGIS     *)
(* service set-up), reading of the symbology from the layer XML, and the   *)
(* encoding and decoding of the source string for storage.                 *)
(*                                                                         *)
(* Strings are sequences of tokens (a token is a run of characters that    *)
(* the code never splits), so that concatenation, "contains", prefixes and *)
(* the parsing of decimal numbers are computed and not assumed.            *)
(***************************************************************************)
EXTENDS Integers, Sequences, FiniteSets, TLC

VARIABLES layer,    \* the fields of the QgsVectorTileLayer object
          nOps,     \* operations run on the layer so far (0: not constructed)
          nReloads, \* how many of them were reads of the layer XML
          last,     \* the last operation: its inputs and what it returned
          src       \* the source string handed to decodedSource / encodedSource

vars == <<layer, nOps, nReloads, last, src>>

\* Operations run on one layer object, the constructor included.
MaxOps == 3
\* Reads of the layer XML among them.
MaxReloads == 1
\* Parameters in a connection string handed to decodedSource.
MaxUriLen == 3

-----------------------------------------------------------------------------
(* QString *)

Contains(s, t) == \E i \in 1..Len(s) : s[i] = t

StartsWith(s, p) == Len(s) >= Len(p) /\ SubSeq(s, 1, Len(p)) = p

DropFirst(s, n) == SubSeq(s, n + 1, Len(s))

DigitValue(c) ==
  CASE c = "0" -> 0 [] c = "1" -> 1 [] c = "2" -> 2 [] c = "3" -> 3
    [] c = "4" -> 4 [] c = "5" -> 5 [] c = "6" -> 6 [] c = "7" -> 7
    [] c = "8" -> 8 [] c = "9" -> 9 [] OTHER -> -1

IsDigits(s) == Len(s) > 0 /\ \A i \in 1..Len(s) : DigitValue(s[i]) >= 0

RECURSIVE DecimalValue(_)
DecimalValue(s) ==
  IF s = <<>> THEN 0
  ELSE 10 * DecimalValue(SubSeq(s, 1, Len(s) - 1)) + DigitValue(s[Len(s)])

RECURSIVE StripZeros(_)
StripZeros(s) == IF Len(s) > 1 /\ s[1] = "0" THEN StripZeros(Tail(s)) ELSE s

\* Whether the digits are at most 2^31 - 1 + extra, computed within 32 bits.
FitsInt(digits, extra) ==
  LET d == StripZeros(digits)
  IN \/ Len(d) <= 9
     \/ /\ Len(d) = 10
        /\ \/ DecimalValue(SubSeq(d, 1, 9)) < 214748364
           \/ /\ DecimalValue(SubSeq(d, 1, 9)) = 214748364
              /\ DigitValue(d[10]) <= 7 + extra

\* QString::toInt( bool *ok ): the value and whether the text is a decimal
\* number that fits a 32-bit int; 0 when it is not.
toIntOk(s) ==
  IF s # <<>> /\ s[1] = "-"
  THEN IsDigits(Tail(s)) /\ FitsInt(Tail(s), 1)
  ELSE IsDigits(s) /\ FitsInt(s, 0)

toInt(s) ==
  IF ~toIntOk(s) THEN 0
  ELSE IF s[1] = "-"
       THEN 0 - 1 - (10 * DecimalValue(SubSeq(s, 2, Len(s) - 1)) + DigitValue(s[Len(s)]) - 1)
       ELSE DecimalValue(s)

-----------------------------------------------------------------------------
(* QgsDataSourceUri: the parameters of an encoded uri, a multi map kept in  *)
(* key order; of two entries with one key the later inserted comes first.   *)
(* A connection string is the sequence of its <<key, value>> items.         *)

KeyOrder == <<"referer", "serviceType", "type", "url", "zmax", "zmin">>

KeyRank(k) == CHOOSE i \in 1..Len(KeyOrder) : KeyOrder[i] = k

setParam(m, k, v) ==
  LET notBefore == {i \in 1..Len(m) : KeyRank(m[i][1]) >= KeyRank(k)}
      pos == IF notBefore = {} THEN Len(m) + 1
             ELSE CHOOSE i \in notBefore : \A j \in notBefore : i <= j
  IN SubSeq(m, 1, pos - 1) \o << <<k, v>> >> \o SubSeq(m, pos, Len(m))

\* The items of s inserted one after the other: item i comes after the
\* items of a smaller key and after the later items of its own key.
PlaceOf(s, i) ==
  1 + Cardinality({ j \in 1..Len(s) :
                      \/ KeyRank(s[j][1]) < KeyRank(s[i][1])
                      \/ KeyRank(s[j][1]) = KeyRank(s[i][1]) /\ j > i })

setEncodedUri(s) ==
  [q \in 1..Len(s) |-> s[CHOOSE i \in 1..Len(s) : PlaceOf(s, i) = q]]

encodedUri(m) == m

hasParam(m, k) == \E i \in 1..Len(m) : m[i][1] = k

param(m, k) ==
  IF hasParam(m, k)
  THEN m[CHOOSE i \in 1..Len(m) :
             m[i][1] = k /\ \A j \in 1..Len(m) : m[j][1] = k => i <= j][2]
  ELSE <<>>

removeParam(m, k) == SelectSeq(m, LAMBDA it : it[1] # k)


-----------------------------------------------------------------------------
(* QVariant and QVariantMap: the parsed JSON of an ArcGIS service document *)

Invalid == [t |-> "invalid"]
Num(n) == [t |-> "num", n |-> n]
Str(s) == [t |-> "str", s |-> s]
List(l) == [t |-> "list", l |-> l]

EmptyMap == [k \in {} |-> Invalid]

mapContains(m, k) == k \in DOMAIN m

mapValue(m, k) == IF k \in DOMAIN m THEN m[k] ELSE Invalid

mapInsert(m, k, v) == [x \in DOMAIN m \cup {k} |-> IF x = k THEN v ELSE m[x]]

DigitChar(d) == <<"0", "1", "2", "3", "4", "5", "6", "7", "8", "9">>[d + 1]

RECURSIVE NumberText(_)
NumberText(n) ==
  IF n < 0 THEN <<"-">> \o NumberText(0 - n)
  ELSE IF n < 10 THEN <<DigitChar(n)>>
  ELSE NumberText(n \div 10) \o <<DigitChar(n % 10)>>

variantToInt(v) ==
  CASE v.t = "num" -> v.n
    [] v.t = "str" -> toInt(v.s)
    [] OTHER -> 0

variantToList(v) == IF v.t = "list" THEN v.l ELSE <<>>

listValue(l, i) == IF i + 1 \in 1..Len(l) THEN l[i + 1] ELSE Invalid

variantToString(v) ==
  CASE v.t = "str" -> v.s
    [] v.t = "num" -> NumberText(v.n)
    [] OTHER -> <<>>

-----------------------------------------------------------------------------
(* The layer *)

XYZ == <<"xyz">>
MBTILES == <<"mbtiles">>
ARCGIS == <<"arcgis">>
BASIC == <<"basic">>
PBF == <<"pbf">>

\* A null QgsRectangle, and a null renderer or labeling pointer.
NullRectangle == [crs |-> "", of |-> "null"]

Nullptr == [type |-> <<>>, madeBy |-> 0]

\* The object before the constructor's body runs: the member initializers.
NewLayer ==
  [ mDataSource |-> <<>>,
    mSourceType |-> <<>>,
    mSourcePath |-> <<>>,
    mSourceMinZoom |-> -1,
    mSourceMaxZoom |-> -1,
    mArcgisLayerConfiguration |-> EmptyMap,
    mExtent |-> NullRectangle,
    mCrs |-> "invalid",
    mValid |-> FALSE,
    mRenderer |-> Nullptr,
    mLabeling |-> Nullptr ]

\* QgsVectorTileUtils::checkXYZUrlTemplate
checkXYZUrlTemplate(url) ==
  /\ Contains(url, "{x}")
  /\ Contains(url, "{z}")
  /\ (Contains(url, "{y}") \/ Contains(url, "{-y}"))

setExtent(L, r) == [L EXCEPT !.mExtent = r]

setCrs(L, crs) == [L EXCEPT !.mCrs = crs]

setValid(L, v) == [L EXCEPT !.mValid = v]

\* QgsCoordinateTransform( EPSG:4326 -> EPSG:3857 ).transformBoundingBox
transformBoundingBox(r) == [crs |-> "EPSG:3857", of |-> r]

FullExtent == [crs |-> "EPSG:3857", of |-> "+-20037508.3427892"]

Failed(L) == [ok |-> FALSE, layer |-> L]

Done(L) == [ok |-> TRUE, layer |-> L]

\* xyzZoomRange without the defaults of lines 67 and 68.
xyzZoomRangeNoDefaults(L, dsUri) ==
  LET L2 == IF hasParam(dsUri, "zmin")
            THEN [L EXCEPT !.mSourceMinZoom = toInt(param(dsUri, "zmin"))]
            ELSE L
  IN IF hasParam(dsUri, "zmax")
     THEN [L2 EXCEPT !.mSourceMaxZoom = toInt(param(dsUri, "zmax"))]
     ELSE L2

\* The zoom range of a plain xyz source.
xyzZoomRange(L, dsUri) ==
  LET L1 == [L EXCEPT !.mSourceMinZoom = 0, !.mSourceMaxZoom = 14]
      L2 == IF hasParam(dsUri, "zmin")
            THEN [L1 EXCEPT !.mSourceMinZoom = toInt(param(dsUri, "zmin"))]
            ELSE L1
  IN IF hasParam(dsUri, "zmax")
     THEN [L2 EXCEPT !.mSourceMaxZoom = toInt(param(dsUri, "zmax"))]
     ELSE L2

\* loadXyz without the check of the template.
loadXyzUnchecked(L, dsUri) ==
  Done(setExtent(xyzZoomRange(L, dsUri), FullExtent))

\* loadDataSource, the branch of a plain xyz source.
loadXyz(L, dsUri) ==
  IF ~checkXYZUrlTemplate(L.mSourcePath) THEN Failed(L)
  ELSE Done(setExtent(xyzZoomRange(L, dsUri), FullExtent))

\* The zoom range of an MBTiles archive, from its metadata table.
mbtilesZoomRange(L, metadata) ==
  LET minZoomOk == toIntOk(metadata["minzoom"])
      maxZoomOk == toIntOk(metadata["maxzoom"])
      minZoom == toInt(metadata["minzoom"])
      maxZoom == toInt(metadata["maxzoom"])
      L1 == IF minZoomOk THEN [L EXCEPT !.mSourceMinZoom = minZoom] ELSE L
  IN IF maxZoomOk THEN [L1 EXCEPT !.mSourceMaxZoom = maxZoom] ELSE L1

\* loadMbtiles without the check of the format.
loadMbtilesAnyFormat(L, env) ==
  IF ~env.canOpen THEN Failed(L)
  ELSE Done(setExtent(mbtilesZoomRange(L, env.metadata),
                      transformBoundingBox(env.extent)))

\* loadDataSource, the branch of an MBTiles archive. env.canOpen is what
\* QgsMbTiles::open() returns for the path, env.metadata the archive's
\* metadata table (an absent key reads as the empty string).
loadMbtiles(L, env) ==
  IF ~env.canOpen THEN Failed(L)
  ELSE IF env.metadata["format"] # PBF THEN Failed(L)
  ELSE Done(setExtent(mbtilesZoomRange(L, env.metadata),
                      transformBoundingBox(env.extent)))

\* arcgisZoomRange without the minimum of line 161.
arcgisZoomRangeKeepsMin(L, conf) ==
  [L EXCEPT !.mSourceMaxZoom = variantToInt(mapValue(conf, "maxzoom"))]

\* The zoom range of an ArcGIS service, from its document.
arcgisZoomRange(L, conf) ==
  [L EXCEPT !.mSourceMinZoom = 0,
            !.mSourceMaxZoom = variantToInt(mapValue(conf, "maxzoom"))]

\* env.request is what QgsBlockingNetworkRequest::get returns, env.body what
\* QJsonDocument::fromJson makes of the reply: null for what does not parse,
\* else a document with its object.
setupArcgisVectorTileServiceConnection(L, uri, env) ==
  IF env.request # "NoError" THEN Failed(L)
  ELSE IF env.body.isNull THEN Failed(L)
  ELSE
    LET L1 == [L EXCEPT !.mArcgisLayerConfiguration = env.body.object]
    IN IF mapContains(L1.mArcgisLayerConfiguration, "error") THEN Failed(L1)
       ELSE
         LET conf == mapInsert(L1.mArcgisLayerConfiguration, "serviceUri", Str(uri))
             tile == variantToString(listValue(variantToList(mapValue(conf, "tiles")), 0))
             L2 == [L1 EXCEPT !.mArcgisLayerConfiguration = conf,
                              !.mSourcePath = uri \o <<"/">> \o tile]
         IN IF ~checkXYZUrlTemplate(L2.mSourcePath) THEN Failed(L2)
            ELSE Done(setExtent(arcgisZoomRange(L2, conf), FullExtent))

loadDataSource(L, env) ==
  LET dsUri == setEncodedUri(L.mDataSource)
      L1 == [L EXCEPT !.mSourceType = param(dsUri, "type"),
                      !.mSourcePath = param(dsUri, "url")]
      r == IF L1.mSourceType = XYZ /\ param(dsUri, "serviceType") = ARCGIS
             THEN setupArcgisVectorTileServiceConnection(L1, L1.mSourcePath, env)
           ELSE IF L1.mSourceType = XYZ THEN loadXyz(L1, dsUri)
           ELSE IF L1.mSourceType = MBTILES THEN loadMbtiles(L1, env)
           ELSE Failed(L1)
  IN IF r.ok THEN Done(setCrs(r.layer, "EPSG:3857")) ELSE r


\* A renderer or labeling object: its type and the operation that made it.
StyleObject(type, tag) == [type |-> type, madeBy |-> tag]

setRenderer(L, r) == [L EXCEPT !.mRenderer = r]

setLabeling(L, labeling) == [L EXCEPT !.mLabeling = labeling]

\* The constructor; tag names the object of the default renderer.
QgsVectorTileLayer(uri, env, tag) ==
  LET L0 == [NewLayer EXCEPT !.mDataSource = uri]
      r == loadDataSource(L0, env)
  IN setRenderer(setValid(r.layer, r.ok), StyleObject(BASIC, tag))

Symbology == "Symbology"
Labeling == "Labeling"
AllStyleCategories == {Symbology, Labeling}

\* readRenderer with a basic renderer for a type it does not know.
readRendererFallsBack(L, xml, errorMessage, categories, tag) ==
  IF Symbology \in categories
  THEN [ret |-> TRUE, errorMessage |-> errorMessage,
        layer |-> setRenderer(L, StyleObject(BASIC, tag))]
  ELSE [ret |-> TRUE, errorMessage |-> errorMessage, layer |-> L]

\* readSymbology, the renderer part: a record of whether the read goes on,
\* the error message and the layer.
readRenderer(L, xml, errorMessage, categories, tag) ==
  IF Symbology \in categories
  THEN IF xml.rendererType = BASIC
       THEN [ret |-> TRUE, errorMessage |-> errorMessage,
             layer |-> setRenderer(L, StyleObject(BASIC, tag))]
       ELSE [ret |-> FALSE,
             errorMessage |-> <<"Unknown renderer type: ">> \o xml.rendererType,
             layer |-> L]
  ELSE [ret |-> TRUE, errorMessage |-> errorMessage, layer |-> L]

\* readLabeling without the setLabeling( nullptr ) of line 237.
readLabelingKeepsOld(L, xml, errorMessage, categories, tag) ==
  IF Labeling \in categories /\ xml.hasLabeling
  THEN IF xml.labelingType = BASIC
       THEN [ret |-> TRUE, errorMessage |-> errorMessage,
             layer |-> setLabeling(L, StyleObject(BASIC, tag))]
       ELSE [ret |-> TRUE,
             errorMessage |-> <<"Unknown labeling type: ">> \o xml.rendererType,
             layer |-> L]
  ELSE [ret |-> TRUE, errorMessage |-> errorMessage, layer |-> L]

\* readSymbology, the labeling part.
readLabeling(L, xml, errorMessage, categories, tag) ==
  IF Labeling \in categories
  THEN LET L1 == setLabeling(L, Nullptr)
       IN IF xml.hasLabeling
          THEN IF xml.labelingType = BASIC
               THEN [ret |-> TRUE, errorMessage |-> errorMessage,
                     layer |-> setLabeling(L1, StyleObject(BASIC, tag))]
               ELSE [ret |-> TRUE,
                     errorMessage |-> <<"Unknown labeling type: ">> \o xml.rendererType,
                     layer |-> L1]
          ELSE [ret |-> TRUE, errorMessage |-> errorMessage, layer |-> L1]
  ELSE [ret |-> TRUE, errorMessage |-> errorMessage, layer |-> L]

readSymbology(L, xml, errorMessage, categories, tag) ==
  IF ~xml.hasRenderer
  THEN [ret |-> FALSE, errorMessage |-> <<"Missing <renderer> tag">>, layer |-> L]
  ELSE LET r == readRenderer(L, xml, errorMessage, categories, tag)
       IN IF ~r.ret THEN r
          ELSE readLabeling(r.layer, xml, r.errorMessage, categories, tag)

\* readXml: a record of what it returns, what loadDataSource returned, the
\* error message of readSymbology and the layer.
readXml(L, env, xml, tag) ==
  LET r == loadDataSource(L, env)
      s == readSymbology(setValid(r.layer, r.ok), xml, <<>>, AllStyleCategories, tag)
  IN [ret |-> s.ret, ok |-> r.ok, errorMessage |-> s.errorMessage, layer |-> s.layer]

\* QgsMapLayer::readLayerXml: the data source of the layer element is stored
\* in the layer, then readXml runs.
readLayerXml(L, uri, env, xml, tag) ==
  readXml([L EXCEPT !.mDataSource = uri], env, xml, tag)


-----------------------------------------------------------------------------
(* Inputs: connection strings, and what the network and the file system    *)
(* answer during one resolution.                                           *)

GoodTemplate == <<"http://h/", "{z}", "/", "{x}", "/", "{y}", ".pbf">>
FlippedTemplate == <<"http://h/", "{z}", "/", "{x}", "/", "{-y}", ".pbf">>
NoZoomTemplate == <<"http://h/", "{x}", "/", "{y}", ".pbf">>
NoColumnTemplate == <<"http://h/", "{z}", "/", "{y}", ".pbf">>
NoRowTemplate == <<"http://h/", "{z}", "/", "{x}", ".pbf">>

ServiceUrl == <<"http://s/VectorTileServer">>
\* A service url that itself holds placeholders.
ServiceUrlWithPlaceholders == <<"http://s/", "{z}", "/", "{x}", "/", "{y}">>

GoodTiles == <<"{z}", "/", "{x}", "/", "{y}", ".pbf">>
NoZoomTiles == <<"{x}", "/", "{y}", ".pbf">>
NoColumnTiles == <<"{z}", "/", "{y}", ".pbf">>
NoRowTiles == <<"{z}", "/", "{x}", ".pbf">>

ArchivePath == <<"/", "data", "/", "a.mbtiles">>

\* The texts of a zoom parameter or metadata value: numbers, text that is
\* no number, and the empty text.
ZoomPairs ==
  { <<<<"2">>, <<"1", "0">>>>, <<<<"1", "0">>, <<"2">>>>, <<<<"a">>, <<"5">>>>,
    <<<<"3">>, <<>>>> }

Uri(items) == encodedUri(setEncodedUri(items))

XyzUri(url) == Uri(<< <<"type", XYZ>>, <<"url", url>> >>)

ArcgisUri(url) == Uri(<< <<"type", XYZ>>, <<"serviceType", ARCGIS>>, <<"url", url>> >>)

XyzSources ==
  { XyzUri(u) : u \in {GoodTemplate, FlippedTemplate, NoZoomTemplate,
                       NoColumnTemplate, NoRowTemplate} }
  \cup { XyzUri(GoodTemplate) \o << <<"zmax", z[2]>>, <<"zmin", z[1]>> >> : z \in ZoomPairs }
  \cup { XyzUri(GoodTemplate) \o << <<"zmin", <<"4">>>> >>,
         XyzUri(GoodTemplate) \o << <<"zmax", <<"9">>>> >> }

MbtilesSource == Uri(<< <<"type", MBTILES>>, <<"url", ArchivePath>> >>)

OtherSources ==
  { <<>>, Uri(<< <<"type", <<"wms">>>>, <<"url", GoodTemplate>> >>) }

IsArcgisSource(s) ==
  param(setEncodedUri(s), "type") = XYZ /\ param(setEncodedUri(s), "serviceType") = ARCGIS
IsPlainXyzSource(s) ==
  param(setEncodedUri(s), "type") = XYZ /\ ~IsArcgisSource(s)
IsMbtilesSource(s) == param(setEncodedUri(s), "type") = MBTILES

NullDocument == [isNull |-> TRUE, object |-> EmptyMap]
Document(object) == [isNull |-> FALSE, object |-> object]

\* A JSON object from the values of its keys; an Invalid value is a key the
\* object does not have.
Object(error, tiles, maxzoom) ==
  LET all == [k \in {"error", "tiles", "maxzoom"} |->
                IF k = "error" THEN error ELSE IF k = "tiles" THEN tiles ELSE maxzoom]
  IN [k \in {x \in DOMAIN all : all[x] # Invalid} |-> all[k]]

TilesValues ==
  { Invalid, List(<<>>), List(<<Str(GoodTiles)>>), List(<<Str(NoZoomTiles)>>),
    List(<<Str(NoColumnTiles)>>), List(<<Str(NoRowTiles)>>),
    List(<<Str(NoRowTiles), Str(GoodTiles)>>) }

MaxzoomValues == { Invalid, Num(16), Str(<<"1", "2">>) }

ServiceObjects ==
  { Object(Invalid, t, Num(16)) : t \in TilesValues }
  \cup { Object(Invalid, List(<<Str(GoodTiles)>>), z) : z \in MaxzoomValues }
  \cup { Object(Invalid, List(<<Str(GoodTiles)>>), Num(-1)),
         Object(Str(<<"denied">>), List(<<Str(GoodTiles)>>), Num(16)),
         EmptyMap }

NoRequest == [request |-> "none", body |-> NullDocument]

Env(net, archive) ==
  [request |-> net.request, body |-> net.body, canOpen |-> archive.canOpen,
   metadata |-> archive.metadata, extent |-> archive.extent]

Metadata(format, minzoom, maxzoom) ==
  [k \in {"format", "minzoom", "maxzoom"} |->
     IF k = "format" THEN format ELSE IF k = "minzoom" THEN minzoom ELSE maxzoom]

NoArchive == [canOpen |-> FALSE, metadata |-> Metadata(<<>>, <<>>, <<>>), extent |-> "none"]

Archives ==
  { [canOpen |-> TRUE, metadata |-> Metadata(PBF, z[1], z[2]), extent |-> "bounds"] :
      z \in ZoomPairs \cup { <<<<>>, <<>>>>, <<<<>>, <<"7">>>> } }
  \cup { [canOpen |-> TRUE, metadata |-> Metadata(f, <<"2">>, <<"1", "0">>),
          extent |-> "bounds"] : f \in { <<"raster">>, <<>> } }
  \cup { NoArchive }

Reply(object) == [request |-> "NoError", body |-> Document(object)]

FailedRequests ==
  { [request |-> e, body |-> NullDocument] :
      e \in {"NetworkError", "TimeoutError", "ServerExceptionError"} }

\* The resolutions of the model: a data source and what answers it.
XyzInputs == { <<s, Env(NoRequest, NoArchive)>> : s \in XyzSources \cup OtherSources }

MbtilesInputs == { <<MbtilesSource, Env(NoRequest, a)>> : a \in Archives }

ArcgisInputs ==
  { <<ArcgisUri(ServiceUrl), Env(r, NoArchive)>> :
      r \in FailedRequests \cup { [request |-> "NoError", body |-> NullDocument] }
            \cup { Reply(o) : o \in ServiceObjects } }
  \cup { <<ArcgisUri(ServiceUrlWithPlaceholders), Env(Reply(o), NoArchive)>> :
           o \in { EmptyMap, Object(Invalid, List(<<>>), Num(16)),
                   Object(Invalid, List(<<Str(NoRowTiles)>>), Num(16)) } }
  \cup { <<ArcgisUri(ServiceUrl) \o << <<"zmax", <<"5">>>>, <<"zmin", <<"2">>>> >>,
           Env(Reply(Object(Invalid, List(<<Str(GoodTiles)>>), Num(16))), NoArchive)>> }

Inputs == XyzInputs \cup MbtilesInputs \cup ArcgisInputs

\* A layer element: its <renderer> and <labeling> children.
XmlNode(r, l) ==
  [hasRenderer |-> r # "absent", rendererType |-> IF r = "absent" THEN <<>> ELSE <<r>>,
   hasLabeling |-> l # "absent", labelingType |-> IF l = "absent" THEN <<>> ELSE <<l>>]

XmlNodes == { XmlNode(r, l) : r \in {"absent", "basic", "rules"},
                              l \in {"absent", "basic", "rules"} }

\* The layer elements of the resolutions: one that reads, one that does not.
ReloadXmlNodes == { XmlNode("basic", "absent"), XmlNode("rules", "basic") }

\* The resolutions of the style reads.
StyleInputs ==
  { <<XyzUri(GoodTemplate), Env(NoRequest, NoArchive)>>,
    <<XyzUri(NoRowTemplate), Env(NoRequest, NoArchive)>> }

NoXml == XmlNode("absent", "absent")
NoEnv == Env(NoRequest, NoArchive)


-----------------------------------------------------------------------------
(* Storing the source string: QUrl, the path resolver of the read/write    *)
(* context, encodedSource and decodedSource.                               *)

isLocalFile(url) == url # <<>> /\ url[1] = "file:"

toLocalFile(url) ==
  IF ~isLocalFile(url) THEN <<>>
  ELSE IF Len(url) >= 2 /\ url[2] = "//" THEN DropFirst(url, 2)
  ELSE DropFirst(url, 1)

\* QUrl::fromLocalFile( path ).toString()
fromLocalFile(path) ==
  IF path = <<>> THEN <<>>
  ELSE IF path[1] = "/" THEN <<"file:", "//">> \o path
  ELSE <<"file:">> \o path

\* QgsPathResolver of a context: context.baseDir is the directory of the
\* project file, empty when paths are kept absolute.
readPath(context, path) ==
  IF context.baseDir # <<>> /\ StartsWith(path, <<".", "/">>)
  THEN context.baseDir \o DropFirst(path, 2)
  ELSE path

writePath(context, path) ==
  IF context.baseDir # <<>> /\ StartsWith(path, context.baseDir)
  THEN <<".", "/">> \o DropFirst(path, Len(context.baseDir))
  ELSE path

\* encodedSource without the removeParam of lines 397 and 405.
encodedSourceNoRemove(source, context) ==
  LET dsUri == setEncodedUri(source)
      sourceType == param(dsUri, "type")
      sourcePath == param(dsUri, "url")
  IN IF sourceType = XYZ
     THEN IF isLocalFile(sourcePath)
          THEN LET relSrcUrl == writePath(context, toLocalFile(sourcePath))
               IN encodedUri(setParam(dsUri, "url", fromLocalFile(relSrcUrl)))
          ELSE source
     ELSE IF sourceType = MBTILES
     THEN encodedUri(setParam(dsUri, "url", writePath(context, sourcePath)))
     ELSE source

encodedSource(source, context) ==
  LET dsUri == setEncodedUri(source)
      sourceType == param(dsUri, "type")
      sourcePath == param(dsUri, "url")
  IN IF sourceType = XYZ
     THEN IF isLocalFile(sourcePath)
          THEN LET relSrcUrl == writePath(context, toLocalFile(sourcePath))
               IN encodedUri(setParam(removeParam(dsUri, "url"), "url",
                                      fromLocalFile(relSrcUrl)))
          ELSE source
     ELSE IF sourceType = MBTILES
     THEN encodedUri(setParam(removeParam(dsUri, "url"), "url",
                              writePath(context, sourcePath)))
     ELSE source

decodedSource(source, context) ==
  LET dsUri == setEncodedUri(source)
      sourceType == param(dsUri, "type")
      sourcePath == param(dsUri, "url")
  IN IF sourceType = XYZ
     THEN IF isLocalFile(sourcePath)
          THEN LET absSrcUrl == readPath(context, toLocalFile(sourcePath))
               IN encodedUri(setParam(removeParam(dsUri, "url"), "url",
                                      fromLocalFile(absSrcUrl)))
          ELSE source
     ELSE IF sourceType = MBTILES
     THEN encodedUri(setParam(removeParam(dsUri, "url"), "url",
                              readPath(context, sourcePath)))
     ELSE source

ProjectDir == <<"/", "proj", "/">>
LocalTiles == <<"t", "/", "{z}", "{x}", "{y}">>

Contexts == { [baseDir |-> <<>>], [baseDir |-> ProjectDir] }

SourceItems ==
  { <<"type", XYZ>>, <<"type", MBTILES>>, <<"zmin", <<"2">>>>,
    <<"url", <<".", "/", "a.mbtiles">>>>,
    <<"url", ProjectDir \o <<"a.mbtiles">>>>,
    <<"url", ArchivePath>>,
    <<"url", <<"file:", ".", "/">> \o LocalTiles>>,
    <<"url", <<"file:", "//">> \o ProjectDir \o LocalTiles>>,
    <<"url", <<"file:">> \o ProjectDir \o LocalTiles>>,
    <<"url", GoodTemplate>> }

\* The connection strings of at most MaxUriLen parameters, in any order.
SourceStrings == UNION { [1..n -> SourceItems] : n \in 0..MaxUriLen }

-----------------------------------------------------------------------------
(* The state machine of one layer object *)

\* rendererBefore and labelingBefore are what the layer held when the
\* operation began.
NoLast ==
  [op |-> "none", env |-> NoEnv, xml |-> NoXml, categories |-> {},
   ok |-> FALSE, ret |-> FALSE, errorMessage |-> <<>>,
   rendererBefore |-> Nullptr, labelingBefore |-> Nullptr]

\* given is a source string, stored the string of the project file (written
\* tells whether encodedSource wrote it from given, or it is given itself),
\* decoded and encoded what decodedSource and then encodedSource make of it.
NoSrc == [stage |-> "idle", context |-> [baseDir |-> <<>>], given |-> <<>>,
          written |-> FALSE, stored |-> <<>>, decoded |-> <<>>, encoded |-> <<>>]

Init ==
  /\ layer = NewLayer
  /\ nOps = 0
  /\ nReloads = 0
  /\ last = NoLast
  /\ src = NoSrc

Construct(uri, env) ==
  /\ nOps = 0
  /\ layer' = QgsVectorTileLayer(uri, env, 1)
  /\ nOps' = 1
  /\ nReloads' = 0
  /\ last' = [op |-> "construct", env |-> env, xml |-> NoXml, categories |-> {},
              ok |-> layer'.mValid, ret |-> TRUE, errorMessage |-> <<>>,
              rendererBefore |-> Nullptr, labelingBefore |-> Nullptr]
  /\ UNCHANGED src

ReadLayerXml(uri, env, xml) ==
  /\ nOps \in 1..(MaxOps - 1)
  /\ nReloads < MaxReloads
  /\ nReloads' = nReloads + 1
  /\ \E r \in {readLayerXml(layer, uri, env, xml, nOps + 1)} :
        /\ layer' = r.layer
        /\ last' = [op |-> "readXml", env |-> env, xml |-> xml,
                    categories |-> AllStyleCategories,
                    ok |-> r.ok, ret |-> r.ret, errorMessage |-> r.errorMessage,
                    rendererBefore |-> layer.mRenderer,
                    labelingBefore |-> layer.mLabeling]
  /\ nOps' = nOps + 1
  /\ UNCHANGED src

ReadSymbology(xml, categories) ==
  /\ nOps \in 1..(MaxOps - 1)
  /\ \E r \in {readSymbology(layer, xml, <<>>, categories, nOps + 1)} :
        /\ layer' = r.layer
        /\ last' = [op |-> "readSymbology", env |-> NoEnv, xml |-> xml,
                    categories |-> categories,
                    ok |-> layer.mValid, ret |-> r.ret, errorMessage |-> r.errorMessage,
                    rendererBefore |-> layer.mRenderer,
                    labelingBefore |-> layer.mLabeling]
  /\ nOps' = nOps + 1
  /\ UNCHANGED <<nReloads, src>>

SetLabeling ==
  /\ nOps \in 1..(MaxOps - 1)
  /\ layer' = setLabeling(layer, StyleObject(BASIC, nOps + 1))
  /\ last' = [NoLast EXCEPT !.op = "setLabeling", !.ok = layer.mValid, !.ret = TRUE,
                             !.rendererBefore = layer.mRenderer,
                             !.labelingBefore = layer.mLabeling]
  /\ nOps' = nOps + 1
  /\ UNCHANGED <<nReloads, src>>

Next ==
  \/ \E in \in Inputs : Construct(in[1], in[2])
  \/ \E in \in Inputs : \E xml \in ReloadXmlNodes : ReadLayerXml(in[1], in[2], xml)

Spec == Init /\ [][Next]_vars

(* The reads of the style: any layer element, any selection of categories *)

NextStyle ==
  \/ \E in \in StyleInputs : Construct(in[1], in[2])
  \/ \E in \in StyleInputs : \E xml \in XmlNodes : ReadLayerXml(in[1], in[2], xml)
  \/ \E xml \in XmlNodes : \E categories \in SUBSET AllStyleCategories :
       ReadSymbology(xml, categories)
  \/ SetLabeling

SpecStyle == Init /\ [][NextStyle]_vars

(* The source string on its way into the project file and back *)

InitSrc ==
  /\ layer = NewLayer
  /\ nOps = 0
  /\ nReloads = 0
  /\ last = NoLast
  /\ \E s \in SourceStrings : \E c \in Contexts :
       src = [NoSrc EXCEPT !.stage = "given", !.context = c, !.given = s]

\* The project is saved: encodedSource writes the source string.
Write ==
  /\ src.stage = "given"
  /\ src' = [src EXCEPT !.stage = "stored", !.written = TRUE,
                        !.stored = encodedSource(src.given, src.context)]
  /\ UNCHANGED <<layer, nOps, nReloads, last>>

\* The project is read: decodedSource reads the stored string, the one that
\* encodedSource wrote or the given string as a project file holds it.
Decode ==
  /\ \/ /\ src.stage = "given"
        /\ src' = [src EXCEPT !.stage = "decoded", !.stored = src.given,
                              !.decoded = decodedSource(src.given, src.context)]
     \/ /\ src.stage = "stored"
        /\ src' = [src EXCEPT !.stage = "decoded",
                              !.decoded = decodedSource(src.stored, src.context)]
  /\ UNCHANGED <<layer, nOps, nReloads, last>>

\* The project is saved again.
Encode ==
  /\ src.stage = "decoded"
  /\ src' = [src EXCEPT !.stage = "encoded",
                        !.encoded = encodedSource(src.decoded, src.context)]
  /\ UNCHANGED <<layer, nOps, nReloads, last>>

NextSrc == Write \/ Decode \/ Encode

SpecSrc == InitSrc /\ [][NextSrc]_vars

-----------------------------------------------------------------------------
(* Properties *)

\* The last operation resolved the data source.
Resolved == last.op \in {"construct", "readXml"}

LastUri == setEncodedUri(layer.mDataSource)

\* A text that is the decimal form of a number.
IsNumber(s) == IsDigits(s) /\ s = StripZeros(s)

\* The service document of the last resolution was fetched and parsed and
\* has no error key.
GoodDocument ==
  /\ last.env.request = "NoError"
  /\ ~last.env.body.isNull
  /\ "error" \notin DOMAIN last.env.body.object

\* The first entry of the tiles list of a service document, the empty text
\* when the list is empty or missing.
FirstTiles(object) ==
  IF "tiles" \in DOMAIN object /\ object["tiles"].t = "list" /\ object["tiles"].l # <<>>
  THEN object["tiles"].l[1].s
  ELSE <<>>

\* A template that has no zoom, no column or no row placeholder.
LacksPlaceholder(template) ==
  \/ ~Contains(template, "{z}")
  \/ ~Contains(template, "{x}")
  \/ ~(Contains(template, "{y}") \/ Contains(template, "{-y}"))

\* The layer held the result of an ArcGIS resolution with maxzoom 16 before
\* the last resolution: its service document is still cached.
HeldArcgisZoom ==
  /\ "serviceUri" \in DOMAIN layer.mArcgisLayerConfiguration
  /\ "maxzoom" \in DOMAIN layer.mArcgisLayerConfiguration
  /\ layer.mArcgisLayerConfiguration["maxzoom"] = Num(16)
  /\ ~LacksPlaceholder(FirstTiles(layer.mArcgisLayerConfiguration))

\* C1: after every resolution of a plain xyz source whose url is a valid
\* template, the constructor's or readXml's, the zoom range is zmin and zmax
\* where the parameter is there (a number), 0 where zmin is missing and 14
\* where zmax is missing, whatever the layer held before.
C1_XyzZoomRange ==
  ( /\ Resolved
    /\ IsPlainXyzSource(layer.mDataSource)
    /\ ~LacksPlaceholder(param(LastUri, "url")) )
  => /\ layer.mValid
     /\ hasParam(LastUri, "zmin") /\ IsNumber(param(LastUri, "zmin"))
          => NumberText(layer.mSourceMinZoom) = param(LastUri, "zmin")
     /\ hasParam(LastUri, "zmax") /\ IsNumber(param(LastUri, "zmax"))
          => NumberText(layer.mSourceMaxZoom) = param(LastUri, "zmax")
     /\ ~hasParam(LastUri, "zmin") => layer.mSourceMinZoom = 0
     /\ ~hasParam(LastUri, "zmax") => layer.mSourceMaxZoom = 14

\* readXml resolved a plain xyz source without zmin and zmax on a layer that
\* held the range [0, 16] of an ArcGIS service.
C1_Witness ==
  /\ last.op = "readXml"
  /\ IsPlainXyzSource(layer.mDataSource)
  /\ ~hasParam(LastUri, "zmin") /\ ~hasParam(LastUri, "zmax")
  /\ HeldArcgisZoom
  /\ layer.mValid
  /\ layer.mSourceMinZoom = 0 /\ layer.mSourceMaxZoom = 14

\* C2: a resolution that fails leaves the layer invalid and leaves the
\* source type, the source path, the zoom range, the extent, the CRS and the
\* cached service document as they were before the attempt.
C2_NoPartialState ==
  [][ (Resolved' /\ nOps' = nOps + 1 /\ ~last'.ok)
      => /\ ~layer'.mValid
         /\ layer'.mSourceType = layer.mSourceType
         /\ layer'.mSourcePath = layer.mSourcePath
         /\ layer'.mSourceMinZoom = layer.mSourceMinZoom
         /\ layer'.mSourceMaxZoom = layer.mSourceMaxZoom
         /\ layer'.mExtent = layer.mExtent
         /\ layer'.mCrs = layer.mCrs
         /\ layer'.mArcgisLayerConfiguration = layer.mArcgisLayerConfiguration ]_vars

\* C3: the minimum zoom is at most the maximum zoom in every state.
C3_MinZoomAtMostMaxZoom == layer.mSourceMinZoom <= layer.mSourceMaxZoom

\* C4: the resolution of an mbtiles source fails, and the layer is invalid,
\* when the archive cannot be opened or its format metadata is not "pbf".
C4_MbtilesFormat ==
  ( /\ Resolved
    /\ IsMbtilesSource(layer.mDataSource)
    /\ (~last.env.canOpen \/ last.env.metadata["format"] # <<"pbf">>) )
  => ~last.ok /\ ~layer.mValid

\* An archive of raster tiles with a zoom range was opened and rejected.
C4_Witness ==
  /\ Resolved
  /\ IsMbtilesSource(layer.mDataSource)
  /\ last.env.canOpen
  /\ last.env.metadata["format"] = <<"raster">>
  /\ last.env.metadata["minzoom"] = <<"2">>
  /\ ~layer.mValid

\* A connection string of a local-file xyz source or of an mbtiles source.
IsFileSource(s) ==
  \/ param(setEncodedUri(s), "type") = <<"mbtiles">>
  \/ /\ param(setEncodedUri(s), "type") = <<"xyz">>
     /\ isLocalFile(param(setEncodedUri(s), "url"))

\* The path that the url of a file source names.
StoredPath(s) ==
  IF param(setEncodedUri(s), "type") = <<"mbtiles">>
  THEN param(setEncodedUri(s), "url")
  ELSE toLocalFile(param(setEncodedUri(s), "url"))

\* writePath undoes readPath on the path of s.
ResolverInverse(context, s) ==
  writePath(context, readPath(context, StoredPath(s))) = StoredPath(s)

\* How many times item it is in connection string s.
Count(s, it) == Cardinality({ i \in 1..Len(s) : s[i] = it })

\* s and r hold the same parameters other than url, each as many times.
SameOtherParams(s, r) ==
  \A it \in { s[i] : i \in 1..Len(s) } \cup { r[i] : i \in 1..Len(r) } :
    it[1] # "url" => Count(s, it) = Count(r, it)

\* C5 as stated: for every file source s, stored in a project file, and
\* every context whose writePath undoes readPath on its path, encoding the
\* decoded string gives s again, with every parameter other than url kept.
C5_RoundTripOfAnyString ==
  ( /\ src.stage = "encoded"
    /\ IsFileSource(src.stored)
    /\ ResolverInverse(src.context, src.stored) )
  => /\ src.encoded = src.stored
     /\ SameOtherParams(src.stored, src.encoded)

\* No parameter key is twice in connection string s.
DistinctKeys(s) == \A i, j \in 1..Len(s) : s[i][1] = s[j][1] => i = j

\* C5 amended: encoding the decoded string gives s again for every file
\* source s without a repeated parameter key that encodedSource wrote under
\* the same context; and for every file source, written or not, the
\* parameters other than url are kept.
C5_RoundTripOfWrittenString ==
  ( /\ src.stage = "encoded"
    /\ IsFileSource(src.stored) )
  => /\ src.written /\ DistinctKeys(src.stored) => src.encoded = src.stored
     /\ SameOtherParams(src.stored, src.decoded)
     /\ SameOtherParams(src.stored, src.encoded)

\* A file source inside the project directory was written with a relative
\* path, read back with the absolute path and written again.
C5_Witness ==
  /\ src.stage = "encoded"
  /\ src.written
  /\ src.context.baseDir = ProjectDir
  /\ param(setEncodedUri(src.given), "type") = <<"xyz">>
  /\ hasParam(setEncodedUri(src.given), "zmin")
  /\ param(setEncodedUri(src.stored), "url") = <<"file:", ".", "/">> \o LocalTiles
  /\ param(setEncodedUri(src.decoded), "url") = <<"file:", "//">> \o ProjectDir \o LocalTiles
  /\ src.encoded = src.stored

\* The base service url of the last ArcGIS resolution.
ServiceUri == param(LastUri, "url")

\* C6 as stated: a resolution is rejected when the template lacks a
\* placeholder, the template being the url parameter of a plain xyz source
\* and the first tiles entry of the service document of an ArcGIS source.
C6_FirstTilesEntryChecked ==
  ( /\ Resolved
    /\ \/ /\ IsPlainXyzSource(layer.mDataSource)
          /\ LacksPlaceholder(param(LastUri, "url"))
       \/ /\ IsArcgisSource(layer.mDataSource)
          /\ GoodDocument
          /\ LacksPlaceholder(FirstTiles(last.env.body.object)) )
  => ~last.ok /\ ~layer.mValid

\* C6 amended: the template of an ArcGIS source is the service url, "/" and
\* the first tiles entry; a resolution whose template lacks a placeholder is
\* rejected on both paths.
C6_TemplateChecked ==
  ( /\ Resolved
    /\ \/ /\ IsPlainXyzSource(layer.mDataSource)
          /\ LacksPlaceholder(param(LastUri, "url"))
       \/ /\ IsArcgisSource(layer.mDataSource)
          /\ GoodDocument
          /\ LacksPlaceholder(ServiceUri \o <<"/">> \o FirstTiles(last.env.body.object)) )
  => ~last.ok /\ ~layer.mValid

\* readXml rejected an ArcGIS service whose document has no tiles list.
C6_Witness ==
  /\ last.op = "readXml"
  /\ IsArcgisSource(layer.mDataSource)
  /\ GoodDocument
  /\ "tiles" \notin DOMAIN last.env.body.object
  /\ ~layer.mValid

\* The document of the last resolution, as the layer is to cache it: with
\* the service url under the key serviceUri.
CachedDocument ==
  [k \in DOMAIN last.env.body.object \cup {"serviceUri"} |->
     IF k = "serviceUri" THEN Str(ServiceUri) ELSE last.env.body.object[k]]

\* C7: the resolution of an ArcGIS source whose document is fetched and
\* parsed, has no error key and a valid first tiles entry succeeds with the
\* zoom range [0, maxzoom of the document], the source path
\* <service url>/<first tiles entry> and the document cached, whatever zmin
\* and zmax the connection string gives.
C7_ArcgisResolution ==
  ( /\ Resolved
    /\ IsArcgisSource(layer.mDataSource)
    /\ GoodDocument
    /\ ~LacksPlaceholder(FirstTiles(last.env.body.object)) )
  => /\ last.ok /\ layer.mValid
     /\ layer.mSourceMinZoom = 0
     /\ \A n \in -1..20 :
          /\ mapValue(last.env.body.object, "maxzoom") = Num(n)
               => layer.mSourceMaxZoom = n
          /\ mapValue(last.env.body.object, "maxzoom") = Str(NumberText(n))
               => layer.mSourceMaxZoom = n
     /\ layer.mSourcePath = ServiceUri \o <<"/">> \o FirstTiles(last.env.body.object)
     /\ layer.mArcgisLayerConfiguration = CachedDocument

\* An ArcGIS source with zmin=2 and zmax=5 resolved to [0, 16].
C7_Witness ==
  /\ Resolved
  /\ IsArcgisSource(layer.mDataSource)
  /\ param(LastUri, "zmin") = <<"2">> /\ param(LastUri, "zmax") = <<"5">>
  /\ layer.mValid
  /\ layer.mSourceMinZoom = 0 /\ layer.mSourceMaxZoom = 16
  /\ layer.mSourcePath = ServiceUrl \o <<"/">> \o GoodTiles
  /\ layer.mArcgisLayerConfiguration["tiles"] = List(<<Str(GoodTiles)>>)

\* C8: the resolution of an archive of format pbf succeeds; a zoom bound
\* whose metadata is a number is that number, and a bound whose metadata is
\* absent or no number is a default (-1 of a new layer, 0 or 14 of an xyz
\* source), never a value that an earlier resolution left.
C8_MbtilesZoomRange ==
  ( /\ Resolved
    /\ IsMbtilesSource(layer.mDataSource)
    /\ last.env.canOpen
    /\ last.env.metadata["format"] = <<"pbf">> )
  => /\ last.ok /\ layer.mValid
     /\ IF IsNumber(last.env.metadata["minzoom"])
        THEN NumberText(layer.mSourceMinZoom) = last.env.metadata["minzoom"]
        ELSE layer.mSourceMinZoom \in {-1, 0}
     /\ IF IsNumber(last.env.metadata["maxzoom"])
        THEN NumberText(layer.mSourceMaxZoom) = last.env.metadata["maxzoom"]
        ELSE layer.mSourceMaxZoom \in {-1, 14}

\* The last operation read the style from a layer element.
ReadStyle == last.op \in {"readXml", "readSymbology"}

UnknownRenderer == last.xml.hasRenderer /\ last.xml.rendererType # <<"basic">>

\* C9 as stated: reading a <renderer> element of a type other than "basic"
\* fails with an error message, whatever the categories, and the renderer of
\* the layer stays.
C9_UnknownRendererAlwaysFails ==
  (ReadStyle /\ UnknownRenderer)
  => /\ ~last.ret
     /\ last.errorMessage # <<>>
     /\ layer.mRenderer = last.rendererBefore

\* C9 amended: it fails with an error message when the Symbology category is
\* selected, as in readXml; without that category the type of the renderer
\* is not looked at and the read succeeds. The renderer of the layer stays
\* in both cases.
C9_UnknownRendererFails ==
  (ReadStyle /\ UnknownRenderer)
  => /\ "Symbology" \in last.categories =>
          /\ ~last.ret
          /\ last.errorMessage = <<"Unknown renderer type: ">> \o last.xml.rendererType
          /\ layer.mLabeling = last.labelingBefore
     /\ "Symbology" \notin last.categories => last.ret
     /\ last.op = "readXml" => "Symbology" \in last.categories
     /\ layer.mRenderer = last.rendererBefore

\* readXml failed on a renderer of type "rules" and the renderer that the
\* constructor installed is still there.
C9_Witness ==
  /\ last.op = "readXml"
  /\ last.xml.rendererType = <<"rules">>
  /\ ~last.ret
  /\ last.rendererBefore = StyleObject(<<"basic">>, 1)
  /\ layer.mRenderer = StyleObject(<<"basic">>, 1)

\* C10: a read of a layer element with a "basic" renderer and a <labeling>
\* of a type that is not known succeeds; the renderer is installed where the
\* Symbology category is read and the layer has no labeling where the
\* Labeling category is read, as both are in readXml. After every read that
\* succeeds with the Labeling category the layer has a labeling iff the
\* element has a <labeling> of type "basic".
C10_UnknownLabelingIgnored ==
  /\ ( /\ ReadStyle
       /\ last.xml.hasRenderer /\ last.xml.rendererType = <<"basic">>
       /\ last.xml.hasLabeling /\ last.xml.labelingType # <<"basic">> )
     => /\ last.ret
        /\ "Symbology" \in last.categories
             => layer.mRenderer = StyleObject(<<"basic">>, nOps)
        /\ "Labeling" \in last.categories => layer.mLabeling = Nullptr
        /\ last.op = "readXml"
             => /\ layer.mRenderer = StyleObject(<<"basic">>, nOps)
                /\ layer.mLabeling = Nullptr
  /\ (ReadStyle /\ last.ret /\ "Labeling" \in last.categories)
     => ( layer.mLabeling # Nullptr
          <=> (last.xml.hasLabeling /\ last.xml.labelingType = <<"basic">>) )

\* readXml read a labeling of type "rules" into a layer that held a
\* labeling: the renderer of the element is installed, the labeling is gone.
C10_Witness ==
  /\ last.op = "readXml"
  /\ last.xml.rendererType = <<"basic">>
  /\ last.xml.hasLabeling /\ last.xml.labelingType = <<"rules">>
  /\ last.labelingBefore # Nullptr
  /\ last.ret
  /\ layer.mRenderer = StyleObject(<<"basic">>, nOps)
  /\ layer.mRenderer # last.rendererBefore
  /\ layer.mLabeling = Nullptr

-----------------------------------------------------------------------------
(* The raw tile of an address: getRawTile and the tile loader it asks.     *)

\* The zoom levels, columns and rows of the addresses asked for.
TileZooms == {0, 3, 12, 15}

QgsTileXYZ == [zoomLevel : TileZooms, column : {0, 1}, row : {0}]

\* QgsTileRange( column, column, row, row )
QgsTileRange(c1, c2, r1, r2) ==
  [startColumn |-> c1, endColumn |-> c2, startRow |-> r1, endRow |-> r2]

\* The bytes of a tile, as the source holds them; QByteArray() is <<>>.
TileData(id) == <<id.zoomLevel, id.column, id.row>>

QgsVectorTileRawData(id) == [id |-> id, data |-> TileData(id)]

\* What is behind a source during one fetch: the kind and path it answers
\* to and the addresses it holds a tile for.
TileSource(type, path, tiles) == [type |-> type, path |-> path, tiles |-> tiles]

TileSets ==
  { {}, QgsTileXYZ, { id \in QgsTileXYZ : id.zoomLevel \in {3, 12} },
    { id \in QgsTileXYZ : id.column = 1 } }

TileSources ==
  { TileSource(XYZ, GoodTemplate, s) : s \in TileSets }
  \cup { TileSource(XYZ, ServiceUrl \o <<"/">> \o GoodTiles, QgsTileXYZ),
         TileSource(MBTILES, ArchivePath, QgsTileXYZ) }

\* The loader walks the addresses of the range, row by row, and answers
\* with the tiles the source holds; it is given neither bound of the
\* layer's zoom range.
blockingFetchTileRawData(sourceType, sourcePath, zoomLevel, range, authcfg, referer, source) ==
  LET nColumns == range.endColumn - range.startColumn + 1
      nRows == range.endRow - range.startRow + 1
      ids == [i \in 1..(nColumns * nRows) |->
                [zoomLevel |-> zoomLevel,
                 column |-> range.startColumn + ((i - 1) % nColumns),
                 row |-> range.startRow + ((i - 1) \div nColumns)]]
      held == SelectSeq(ids, LAMBDA id : id \in source.tiles)
  IN IF sourceType = source.type /\ sourcePath = source.path
     THEN [i \in 1..Len(held) |-> QgsVectorTileRawData(held[i])]
     ELSE <<>>

\* The layer comes back as it was given: the function assigns no member.
getRawTile(L, tileID, source) ==
  LET tileRange == QgsTileRange(tileID.column, tileID.column, tileID.row, tileID.row)
      dsUri == setEncodedUri(L.mDataSource)
      authcfg == param(dsUri, "authcfg")
      referer == param(dsUri, "referer")
      call == [sourceType |-> L.mSourceType, sourcePath |-> L.mSourcePath,
               zoomLevel |-> tileID.zoomLevel, tileRange |-> tileRange,
               authcfg |-> authcfg, referer |-> referer]
      rawTiles == blockingFetchTileRawData(L.mSourceType, L.mSourcePath,
                                           tileID.zoomLevel, tileRange,
                                           authcfg, referer, source)
  IN [layer |-> L, calls |-> <<call>>, rawTiles |-> rawTiles,
      data |-> IF rawTiles = <<>> THEN <<>> ELSE Head(rawTiles).data]

\* The resolutions before a fetch.
TileInputs ==
  { <<s, NoEnv>> :
      s \in { XyzUri(GoodTemplate), XyzUri(NoZoomTemplate),
              XyzUri(GoodTemplate) \o << <<"zmin", <<"4">>>> >>,
              XyzUri(GoodTemplate) \o << <<"zmax", <<"9">>>> >>,
              Uri(<< <<"referer", <<"http://r/">>>>, <<"type", XYZ>>,
                     <<"url", GoodTemplate>> >>) } \cup OtherSources }
  \cup { <<MbtilesSource,
           Env(NoRequest, [canOpen |-> TRUE,
                           metadata |-> Metadata(PBF, <<"2">>, <<"1", "0">>),
                           extent |-> "bounds"])>>,
         <<MbtilesSource, Env(NoRequest, NoArchive)>>,
         <<ArcgisUri(ServiceUrl),
           Env(Reply(Object(Invalid, List(<<Str(GoodTiles)>>), Num(12))), NoArchive)>> }

GetRawTile(tileID, source) ==
  /\ nOps \in 1..(MaxOps - 1)
  /\ \E r \in {getRawTile(layer, tileID, source)} :
        /\ layer' = r.layer
        /\ last' = [op |-> "getRawTile", ok |-> layer.mValid, ret |-> TRUE,
                    tileID |-> tileID, source |-> source, calls |-> r.calls,
                    rawTiles |-> r.rawTiles, data |-> r.data,
                    layerBefore |-> layer]
  /\ nOps' = nOps + 1
  /\ UNCHANGED <<nReloads, src>>

NextTile ==
  \/ \E in \in TileInputs : Construct(in[1], in[2])
  \/ \E in \in TileInputs : \E xml \in ReloadXmlNodes : ReadLayerXml(in[1], in[2], xml)
  \/ \E tileID \in QgsTileXYZ : \E source \in TileSources : GetRawTile(tileID, source)

SpecTile == Init /\ [][NextTile]_vars

Fetched == last.op = "getRawTile"

OutOfRange(zoomLevel) ==
  zoomLevel < layer.mSourceMinZoom \/ zoomLevel > layer.mSourceMaxZoom

\* The loader is asked once, for the one address, with the kind and path the
\* layer holds, and the answer is the payload of the first result, or no
\* bytes when there is no result.
C11_FirstPayloadOrEmpty ==
  Fetched =>
    /\ Len(last.calls) = 1
    /\ last.calls[1].sourceType = layer.mSourceType
    /\ last.calls[1].sourcePath = layer.mSourcePath
    /\ last.calls[1].zoomLevel = last.tileID.zoomLevel
    /\ last.calls[1].tileRange =
         QgsTileRange(last.tileID.column, last.tileID.column,
                      last.tileID.row, last.tileID.row)
    /\ last.calls[1].referer = param(LastUri, "referer")
    /\ last.data = IF last.rawTiles = <<>> THEN <<>> ELSE last.rawTiles[1].data

\* The fetch leaves every field of the layer as it was.
C11_StateUnchanged == Fetched => layer = last.layerBefore

\* An address whose zoom level is outside the range of a resolved layer has
\* no bytes.
C11_OutOfRangeIsEmpty ==
  (Fetched /\ layer.mValid /\ OutOfRange(last.tileID.zoomLevel)) => last.data = <<>>

\* C11: getRawTile makes one fetch of the one address through the loader and
\* returns the payload of the first result, or no bytes when the loader has
\* no result; for every address whose zoom level is outside
\* [sourceMinZoom, sourceMaxZoom] it returns no bytes; and it changes
\* nothing of the layer's resolved state.
C11_GetRawTile ==
  /\ C11_FirstPayloadOrEmpty
  /\ C11_OutOfRangeIsEmpty
  /\ C11_StateUnchanged

=============================================================================
